---- MODULE Spec2Model ----
(***************************************************************************)
(* MP3TagEditor: the ID3v2 tag reader (id3_reader.c), the tag writer and   *)
(* the edit operation (id3_writer.c) and the file-name check               *)
(* (error_handling.c), over a file system of byte sequences.               *)
(*                                                                         *)
(* Bytes are the integers 0..255; a C string is the sequence of its bytes  *)
(* without the terminating NUL; a char* that may be NULL is <<>> (NULL) or *)
(* <<s>> (a pointer to the string s).                                      *)
(***************************************************************************)
EXTENDS Integers, Sequences, FiniteSets, TLC

VARIABLES fs, last, nops

vars == <<fs, last, nops>>

---------------------------------------------------------------------------
(* Bounds of the model *)

\* how many runs of the program (one operation each) a behaviour holds
MaxOps == 1
\* the longest frame content of the generated tag files
MaxContentLen == 2
\* the longest field value of the records handed to write and edit
MaxValLen == 2

---------------------------------------------------------------------------
(* Byte strings of the source *)

ID3 == <<73, 68, 51>>
TIT2 == <<84, 73, 84, 50>>
TPE1 == <<84, 80, 69, 49>>
TALB == <<84, 65, 76, 66>>
TYER == <<84, 89, 69, 82>>
COMM == <<67, 79, 77, 77>>
TCON == <<84, 67, 79, 78>>
\* ".mp3"
DotMp3 == <<46, 109, 112, 51>>
\* "temp.mp3"
TempName == <<116, 101, 109, 112, 46, 109, 112, 51>>
\* "ID3v2."
VersionPrefix == <<73, 68, 51, 118, 50, 46>>

FRAME_HEADER_SIZE == 10
SeekOffset == 300
VerStrSize == 10

Fields == <<"title", "artist", "album", "year", "comment", "genre">>
FieldSet == {Fields[i] : i \in 1..Len(Fields)}

NULL == <<>>
Str(s) == <<s>>

---------------------------------------------------------------------------
(* C library *)

Min(a, b) == IF a < b THEN a ELSE b

SetMax(S) == CHOOSE x \in S : \A y \in S : y <= x

\* fread(buf, 1, n, fp) at offset pos: the bytes it delivers (fewer than n at
\* the end of the file); the offset advances by their number
fread(bytes, pos, n) ==
    IF pos >= Len(bytes) \/ n <= 0 THEN <<>>
    ELSE IF n >= Len(bytes) - pos THEN SubSeq(bytes, pos + 1, Len(bytes))
    ELSE SubSeq(bytes, pos + 1, pos + n)

\* the C string a buffer holds: its bytes before the first NUL
CStr(buf) ==
    LET nuls == {i \in 1..Len(buf) : buf[i] = 0}
    IN  IF nuls = {} THEN buf
        ELSE SubSeq(buf, 1, (CHOOSE i \in nuls : \A j \in nuls : i <= j) - 1)

strdup(buf) == Str(CStr(buf))

\* printf's %d of a byte
Dec(n) ==
    IF n >= 100 THEN <<48 + (n \div 100), 48 + ((n \div 10) % 10), 48 + (n % 10)>>
    ELSE IF n >= 10 THEN <<48 + (n \div 10), 48 + (n % 10)>>
    ELSE <<48 + n>>

\* snprintf(buf, size, ...): at most size - 1 bytes of the formatted text
snprintf(size, text) == SubSeq(text, 1, Min(Len(text), size - 1))

---------------------------------------------------------------------------
(* error_handling.c *)

\* a check that looks for ".mp3" anywhere in the name (strstr)
check_id3_tag_presence_Anywhere(filename) ==
    \E i \in 1..Len(filename) :
        i + 3 <= Len(filename) /\ SubSeq(filename, i, i + 3) = DotMp3

\* strrchr(filename, '.') and strcmp(ext, ".mp3") == 0
check_id3_tag_presence(filename) ==
    LET dots == {i \in 1..Len(filename) : filename[i] = 46}
    IN  IF dots = {} THEN FALSE
        ELSE SubSeq(filename, SetMax(dots), Len(filename)) = DotMp3

---------------------------------------------------------------------------
(* id3_utils.c *)

create_tag_data ==
    [version |-> NULL, title |-> NULL, artist |-> NULL, album |-> NULL,
     year |-> NULL, comment |-> NULL, genre |-> NULL]

---------------------------------------------------------------------------
(* id3_reader.c *)

\* a comparison of the first byte alone
HasID3Magic_FirstByte(header) == header[1] = ID3[1]

\* memcmp(header, "ID3", 3) == 0
HasID3Magic(header) == SubSeq(header, 1, 3) = ID3

\* the tag size of the header: four bytes of seven bits
TagSize(header) ==
    (header[7] % 128) * 2097152 + (header[8] % 128) * 16384
        + (header[9] % 128) * 128 + (header[10] % 128)

\* the frame size: four bytes, big-endian, in a 32-bit signed int
FrameSize(sizeBytes) ==
    (IF sizeBytes[1] >= 128 THEN sizeBytes[1] - 256 ELSE sizeBytes[1]) * 16777216
        + sizeBytes[2] * 65536 + sizeBytes[3] * 256 + sizeBytes[4]

\* a version text of the major version alone
VersionString_MajorOnly(header) ==
    snprintf(VerStrSize, VersionPrefix \o Dec(header[4]))

\* snprintf(verStr, sizeof(verStr), "ID3v2.%d.%d", header[3], header[4])
VersionString(header) ==
    snprintf(VerStrSize, VersionPrefix \o Dec(header[4]) \o <<46>> \o Dec(header[5]))

\* the field a frame id is stored in; "" for the ids the reader skips
FieldOfFrame(frameId) ==
    IF frameId = TIT2 THEN "title"
    ELSE IF frameId = TPE1 THEN "artist"
    ELSE IF frameId = TALB THEN "album"
    ELSE IF frameId = TYER THEN "year"
    ELSE IF frameId = COMM THEN "comment"
    ELSE IF frameId = TCON THEN "genre"
    ELSE ""

StoreFrame(data, frameId, content) ==
    IF FieldOfFrame(frameId) = "" THEN data
    ELSE [data EXCEPT ![FieldOfFrame(frameId)] = strdup(content)]

\* malloc(frameSize + 1) of the frame loop: "null", "ok", or "zero" for a
\* request of 0 bytes. frameSize + 1 is computed in int and converted to
\* size_t: a negative value asks for more than the address space, and
\* INT_MAX + 1 overflows (in practice to INT_MIN).
FrameMalloc(frameSize, allocFails) ==
    IF frameSize = 2147483647 \/ frameSize < -1 THEN "null"
    ELSE IF allocFails THEN "null"
    ELSE IF frameSize = -1 THEN "zero"
    ELSE "ok"

\* does the fault make the n-th malloc of a frame buffer fail
FrameAllocFails(fault, n) ==
    \/ fault = "frameAlloc1" /\ n = 1
    \/ fault = "frameAlloc2" /\ n = 2

\* the record after a write past the end of a heap buffer that reached the
\* strings allocated before it: they hold the bytes written over them
Overrun(data, written) ==
    [f \in DOMAIN data |-> IF data[f] = NULL THEN NULL ELSE strdup(written)]

LoopEnd(data, parsed, pos, stop) ==
    [data |-> data, parsed |-> parsed, pos |-> pos, stop |-> stop]

\* the frame loop. parsed lists the frames read in full: id, offset and
\* declared size; stop says which exit of the loop was taken.
RECURSIVE ReadFrames(_, _, _, _, _, _, _)
ReadFrames(bytes, pos, tagEnd, data, parsed, fault, ub) ==
    IF ~(pos < tagEnd) THEN LoopEnd(data, parsed, pos, "tagEnd")
    ELSE
    LET frameId == fread(bytes, pos, 4)
        sizeBytes == fread(bytes, pos + 4, 4)
        flags == fread(bytes, pos + 8, 2)
    IN
    IF Len(frameId) # 4 THEN
        LoopEnd(data, parsed, pos + Len(frameId), "shortFrameHeader")
    ELSE IF Len(sizeBytes) # 4 THEN
        LoopEnd(data, parsed, pos + 4 + Len(sizeBytes), "shortFrameHeader")
    ELSE IF Len(flags) # 2 THEN
        LoopEnd(data, parsed, pos + 8 + Len(flags), "shortFrameHeader")
    ELSE IF frameId[1] = 0 THEN
        LoopEnd(data, parsed, pos + FRAME_HEADER_SIZE, "padding")
    ELSE
    LET frameSize == FrameSize(sizeBytes)
        got == FrameMalloc(frameSize, FrameAllocFails(fault, Len(parsed) + 1))
        body == pos + FRAME_HEADER_SIZE
    IN
    IF got = "null" THEN LoopEnd(data, parsed, body, "mallocFailed")
    ELSE IF got = "zero" THEN
        \* fread(content, 1, (size_t)-1, fp) into a buffer of 0 bytes: every
        \* byte left in the file is written past the end of the buffer
        IF Len(bytes) > body /\ ub = "crash"
        THEN LoopEnd(data, parsed, Len(bytes), "crash")
        ELSE IF Len(bytes) > body /\ ub = "corrupt"
        THEN LoopEnd(Overrun(data, fread(bytes, body, Len(bytes))), parsed,
                     Len(bytes), "shortBody")
        ELSE LoopEnd(data, parsed, SetMax({body, Len(bytes)}), "shortBody")
    ELSE
    LET content == fread(bytes, body, frameSize)
    IN
    IF Len(content) # frameSize THEN
        LoopEnd(data, parsed, body + Len(content), "shortBody")
    ELSE
        ReadFrames(bytes, body + frameSize, tagEnd,
                   StoreFrame(data, frameId, content),
                   Append(parsed, [id |-> frameId, at |-> pos, size |-> frameSize]),
                   fault, ub)


\* what an operation leaves: status "ok", "fail" or "crash"; the errors
\* display_error reported, in order; the TagData it holds at its end (for a
\* failed operation and a crash, none); the calls made on files; the frame
\* loop's account; the file system
Outcome(status, errs, data, io, loop, fsys) ==
    [status |-> status, errs |-> errs, data |-> data, io |-> io,
     parsed |-> loop.parsed, stop |-> loop.stop, pos |-> loop.pos, fsys |-> fsys]

NoData == <<>>
NoLoop == [parsed |-> <<>>, stop |-> "none", pos |-> 0]

read_id3_tags(filename, fsys, fault, ub) ==
    IF ~check_id3_tag_presence(filename) THEN
        Outcome("fail", <<"NotAnMp3File">>, NoData, <<>>, NoLoop, fsys)
    ELSE IF filename \notin DOMAIN fsys \/ fault = "open" THEN
        Outcome("fail", <<"IoError">>, NoData, <<<<"fopen_failed", "fp">>>>, NoLoop, fsys)
    ELSE
    LET bytes == fsys[filename]
        header == fread(bytes, 0, 10)
    IN
    IF Len(header) # 10 THEN
        Outcome("fail", <<"TruncatedHeader">>, NoData,
                <<<<"fopen", "fp">>, <<"fread", "fp">>, <<"fclose", "fp">>>>, NoLoop, fsys)
    ELSE IF ~HasID3Magic(header) THEN
        Outcome("fail", <<"NoTagFound">>, NoData,
                <<<<"fopen", "fp">>, <<"fread", "fp">>, <<"fclose", "fp">>>>, NoLoop, fsys)
    ELSE IF fault = "alloc" THEN
        Outcome("fail", <<"AllocationFailure">>, NoData,
                <<<<"fopen", "fp">>, <<"fread", "fp">>, <<"fclose", "fp">>>>, NoLoop, fsys)
    ELSE
    LET tagSize == TagSize(header)
        data == [create_tag_data EXCEPT !.version = Str(VersionString(header))]
        tagEnd == 10 + tagSize
        loop == ReadFrames(bytes, 10, tagEnd, data, <<>>, fault, ub)
    IN
    IF loop.stop = "crash" THEN
        Outcome("crash", <<>>, NoData,
                <<<<"fopen", "fp">>, <<"fread", "fp">>>>, loop, fsys)
    ELSE
        Outcome("ok", <<>>, <<loop.data>>,
                <<<<"fopen", "fp">>, <<"fread", "fp">>, <<"fclose", "fp">>>>, loop, fsys)

---------------------------------------------------------------------------
(* id3_writer.c *)

\* the four bytes of the content size, most significant first
SizeBytes(content_size) ==
    <<(content_size \div 16777216) % 256, (content_size \div 65536) % 256,
      (content_size \div 256) % 256, content_size % 256>>

\* the bytes write_frame appends to the file
write_frame(out, frame_id, content) ==
    IF content = NULL THEN out
    ELSE out \o frame_id \o SizeBytes(Len(content[1])) \o <<0, 0>> \o content[1]

\* the six write_frame calls, in the order of the source
WriteFrames(out, data) ==
    LET t1 == write_frame(out, TIT2, data.title)
        t2 == write_frame(t1, TPE1, data.artist)
        t3 == write_frame(t2, TALB, data.album)
        t4 == write_frame(t3, TYER, data.year)
        t5 == write_frame(t4, COMM, data.comment)
    IN  write_frame(t5, TCON, data.genre)

\* the copy loop without the fseek: from the end of the header on
CopyRemainder_NoSeek(bytes) == fread(bytes, 10, Len(bytes))

\* fseek(fp_orig, 300, SEEK_SET) and the copy loop: the bytes from the
\* offset to the end of the file
CopyRemainder(bytes) == fread(bytes, SeekOffset, Len(bytes))

\* fopen(name, "wb+"): the file exists and is empty
Truncate(fsys, name) ==
    [p \in DOMAIN fsys \cup {name} |-> IF p = name THEN <<>> ELSE fsys[p]]

\* fclose(fp_temp) without the buffered bytes reaching the file: the file
\* exists and is empty
StoreFile_NotFlushed(fsys, name, bytes) ==
    [p \in DOMAIN fsys \cup {name} |-> IF p = name THEN <<>> ELSE fsys[p]]

\* the six frames and the copied remainder, written and closed
StoreFile(fsys, name, bytes) ==
    [p \in DOMAIN fsys \cup {name} |-> IF p = name THEN bytes ELSE fsys[p]]

RemoveFile(fsys, name) == [p \in DOMAIN fsys \ {name} |-> fsys[p]]

\* rename(from, to)
RenameFile(fsys, from, to) ==
    [p \in (DOMAIN fsys \ {from}) \cup {to} |-> IF p = to THEN fsys[from] ELSE fsys[p]]

\* a failure path that closes the original alone
ShortHeaderCleanup_LeakTemp == <<<<"fclose", "fp_orig">>>>

\* the two fclose calls when the header read comes short
ShortHeaderCleanup == <<<<"fclose", "fp_orig">>, <<"fclose", "fp_temp">>>>

write_id3_tags(filename, data, fsys, fault) ==
    IF ~check_id3_tag_presence(filename) THEN
        Outcome("fail", <<"NotAnMp3File">>, NoData, <<>>, NoLoop, fsys)
    ELSE IF filename \notin DOMAIN fsys \/ fault = "open" THEN
        Outcome("fail", <<"IoError">>, NoData,
                <<<<"fopen_failed", "fp_orig">>>>, NoLoop, fsys)
    ELSE IF fault = "tempCreate" THEN
        Outcome("fail", <<"IoError">>, NoData,
                <<<<"fopen", "fp_orig">>, <<"fopen_failed", "fp_temp">>,
                  <<"fclose", "fp_orig">>>>, NoLoop, fsys)
    ELSE
    LET fs1 == Truncate(fsys, TempName)
        orig == fs1[filename]
        header == fread(orig, 0, 10)
    IN
    IF Len(header) # 10 THEN
        Outcome("fail", <<"TruncatedHeader">>, NoData,
                <<<<"fopen", "fp_orig">>, <<"fopen", "fp_temp">>, <<"fread", "fp_orig">>>>
                    \o ShortHeaderCleanup, NoLoop, fs1)
    ELSE
    LET temp == WriteFrames(header, data) \o CopyRemainder(orig)
        fs2 == StoreFile(fs1, TempName, temp)
        closed == <<<<"fopen", "fp_orig">>, <<"fopen", "fp_temp">>, <<"fread", "fp_orig">>,
                    <<"fwrite", "fp_temp">>, <<"fseek", "fp_orig">>,
                    <<"fclose", "fp_orig">>, <<"fclose", "fp_temp">>>>
    IN
    IF fault = "remove" THEN
        Outcome("fail", <<"IoError">>, NoData,
                Append(closed, <<"remove_failed", "">>), NoLoop, fs2)
    ELSE IF fault = "rename" THEN
        Outcome("fail", <<"IoError">>, NoData,
                closed \o <<<<"remove", "">>, <<"rename_failed", "">>>>, NoLoop,
                RemoveFile(fs2, filename))
    ELSE
        Outcome("ok", <<>>, <<data>>,
                closed \o <<<<"remove", "">>, <<"rename", "">>>>, NoLoop,
                RenameFile(RemoveFile(fs2, filename), TempName, filename))

\* a chain whose last branch takes every other name for "genre"
FieldOfTag_LastBranch(tag) == IF tag \in FieldSet THEN tag ELSE "genre"

\* the field edit_tag assigns for a tag name; "" for a name it does not know
FieldOfTag(tag) == IF tag \in FieldSet THEN tag ELSE ""

edit_tag(filename, tag, value, fsys, rfault, wfault, ub) ==
    LET r == read_id3_tags(filename, fsys, rfault, ub)
    IN
    IF r.status = "crash" THEN r
    ELSE IF r.status = "fail" THEN [r EXCEPT !.errs = Append(r.errs, "ReadFailed")]
    ELSE IF FieldOfTag(tag) = "" THEN
        [r EXCEPT !.status = "fail", !.errs = <<"UnknownField">>, !.data = NoData]
    ELSE
    LET data == [r.data[1] EXCEPT ![FieldOfTag(tag)] = strdup(value)]
        w == write_id3_tags(filename, data, fsys, wfault)
    IN  [w EXCEPT !.io = r.io \o w.io, !.parsed = r.parsed, !.stop = r.stop,
                  !.pos = r.pos]

---------------------------------------------------------------------------
(* Inputs: file names *)

\* "a.mp3", and with ".mp3" and "temp.mp3" two names no file has at the
\* start: "a.b.mp3"
NameA == <<97>> \o DotMp3
NameDots == <<97, 46, 98>> \o DotMp3
\* "a.MP3", "a.mp3x", "amp3", "a.mp3.txt"
NameUpper == <<97, 46, 77, 80, 51>>
NameLonger == NameA \o <<120>>
NameNoDot == <<97, 109, 112, 51>>
NameTxt == NameA \o <<46, 116, 120, 116>>

Mp3Names == {NameA, DotMp3, NameDots, TempName}
OtherNames == {NameUpper, NameLonger, NameNoDot, NameTxt}
Names == Mp3Names \cup OtherNames

\* the files there at the start: one tagged target and files under names
\* the check refuses, all with the same bytes
StartNames == {NameA, NameUpper, NameNoDot}

---------------------------------------------------------------------------
(* Inputs: files *)

Repeat(b, n) == [i \in 1..n |-> b]

Zeros(n) == Repeat(0, n)

\* a tag header declaring size (below 2^14) in its last two bytes
Header(magic, major, minor, size) ==
    magic \o <<major, minor, 0, 0, 0, size \div 128, size % 128>>

FrameBytes(id, sizeBytes, content) == id \o sizeBytes \o <<0, 0>> \o content

\* a well-formed frame
Frame(id, content) ==
    FrameBytes(id, <<0, 0, 0, Len(content)>>, content)

RECURSIVE Concat(_)
Concat(seqs) == IF seqs = <<>> THEN <<>> ELSE Head(seqs) \o Concat(Tail(seqs))

\* a tag whose header declares exactly the length of its frames
Tag(frames) == Header(ID3, 3, 0, Len(Concat(frames))) \o Concat(frames)

Hello == <<72, 101, 108, 108, 111>>

\* the header 'I','D','3',3,0,0,0,0,0,0x23, one TIT2 frame "Hello", zeros up to
\* the 35 declared bytes
HelloFile == <<73, 68, 51, 3, 0, 0, 0, 0, 0, 35>> \o Frame(TIT2, Hello) \o Zeros(20)

EmptyTagFile == Header(ID3, 3, 0, 0)
ShortFile == <<73, 68, 51>>
\* an MPEG stream without a tag
UntaggedFile == <<255, 251, 144, 0, 1, 2, 3, 4, 5, 6, 7, 8>>
AudioTail == <<255, 251, 144, 0>>

PadTo(bytes, n) == bytes \o Zeros(n - Len(bytes))

\* a tag of 290 bytes (one frame and padding), then audio from offset 300
LongFile == PadTo(Header(ID3, 3, 0, 290) \o Frame(TPE1, <<80>>), SeekOffset) \o AudioTail
\* a header declaring 400 bytes, and past offset 300 bytes that read as a frame
LongTagFile == PadTo(Header(ID3, 4, 0, 400), SeekOffset) \o Frame(TIT2, <<90>>)
LongUntaggedFile == PadTo(UntaggedFile, SeekOffset) \o AudioTail
\* a file of exactly 300 bytes whose tag has room for six short frames
RoomyFile == PadTo(Header(ID3, 3, 0, 200) \o Frame(TALB, <<76>>), SeekOffset)

\* a frame declaring 0xFFFFFFFF bytes, and bytes after it
HugeFrameFile ==
    Header(ID3, 3, 0, 100) \o FrameBytes(TIT2, <<255, 255, 255, 255>>, Repeat(65, 40))

WriterFiles ==
    {HelloFile, EmptyTagFile, ShortFile, UntaggedFile, LongFile, LongTagFile,
     LongUntaggedFile, RoomyFile, HugeFrameFile}

---------------------------------------------------------------------------
(* Inputs: records *)

FieldIndex(f) == CHOOSE i \in 1..Len(Fields) : Fields[i] = f

\* the record holding, for each field of S, k times the field's own letter
\* ('A' for title .. 'F' for genre), and the version the caller of write sets
RecOf(S, k) ==
    [f \in FieldSet \cup {"version"} |->
        IF f = "version" THEN Str(VersionPrefix \o <<51>>)
        ELSE IF f \in S THEN Str(Repeat(64 + FieldIndex(f), k))
        ELSE NULL]

Records ==
    {RecOf(S, k) : S \in {T \in SUBSET FieldSet : Cardinality(T) \in {0, 1, 5, 6}},
                   k \in {0, MaxValLen}}

TagNames == FieldSet \cup {"publisher", "Title"}
EditValues == {Repeat(90, k) : k \in {0, MaxValLen}}

\* what the environment does to a run: one call that fails, or the outcome
\* of writing past the end of a heap buffer, should the run do so (the run
\* is killed, strings of the record are overwritten, or nothing shows)
ReadEnvs ==
    {<<"none", "benign">>, <<"none", "crash">>, <<"none", "corrupt">>, <<"open", "benign">>,
     <<"alloc", "benign">>, <<"frameAlloc1", "benign">>, <<"frameAlloc2", "benign">>}
WriteFaults == {"none", "open", "tempCreate", "remove", "rename"}
\* for edit: the read's environment and the write's failing call
EditEnvs ==
    {<<e[1], e[2], "none">> : e \in ReadEnvs}
        \cup {<<"none", "benign", w>> : w \in WriteFaults \ {"none"}}

---------------------------------------------------------------------------
(* Inputs: tag files for the reader *)

XYYZ == <<88, 89, 89, 90>>
\* "tit2"
LowerTit2 == <<116, 105, 116, 50>>
KnownIds == {TIT2, TPE1, TALB, TYER, COMM, TCON}
UnknownIds == {XYYZ, LowerTit2}

ContentBytes == {0, 65}
Contents == UNION {[1..k -> ContentBytes] : k \in 0..MaxContentLen}

SingleFrameFiles ==
    {Tag(<<Frame(id, c)>>) : id \in KnownIds \cup UnknownIds, c \in Contents}

\* a frame the reader does not know, then one it knows
SkipTags ==
    {<<Frame(u, c1), Frame(k, c2)>> : u \in UnknownIds, k \in KnownIds,
                                      c1 \in Contents, c2 \in Contents}
SkipFiles == {Tag(t) : t \in SkipTags}

\* the same id twice, another frame between
RepeatFiles ==
    {Tag(<<Frame(k, c1), Frame(XYYZ, <<65>>), Frame(k, c2)>>) :
        k \in KnownIds, c1 \in Contents, c2 \in Contents}

AllSixFile ==
    Tag(<<Frame(TIT2, <<65>>), Frame(TPE1, <<66>>), Frame(TALB, <<67>>),
          Frame(TYER, <<68>>), Frame(COMM, <<69>>), Frame(TCON, <<70>>)>>)

\* declared frame sizes the file does not hold
BadSizes ==
    {<<255, 255, 255, 255>>, <<255, 255, 255, 254>>, <<128, 0, 0, 0>>,
     <<127, 255, 255, 255>>, <<127, 255, 255, 254>>, <<0, 0, 0, 64>>, <<0, 1, 0, 0>>}
BadSizeFiles ==
    {Header(ID3, 3, 0, 100) \o Frame(TPE1, <<80>>) \o FrameBytes(TIT2, sb, rest) :
        sb \in BadSizes, rest \in {<<>>, <<65>>, Repeat(65, 40)}}
        \cup {Header(ID3, 3, 0, 100) \o FrameBytes(XYYZ, sb, <<65, 66>>) : sb \in BadSizes}

\* the file ends inside a frame
CutFiles ==
    {Header(ID3, 3, 0, 100) \o Frame(TPE1, <<80>>)
        \o SubSeq(Frame(TIT2, <<65, 66>>), 1, k) : k \in 0..11}

\* version bytes, flags and size bytes with the top bit set
HeaderFiles ==
    {<<73, 68, 51, major, minor, flags, 0, 0, 0, sz>> \o Frame(TIT2, Hello) :
        major \in {0, 2, 3, 4, 10, 255}, minor \in {0, 7, 12, 255},
        flags \in {0, 128}, sz \in {15, 143}}

\* the header declares less, or more, than the frames that follow
SizeFiles ==
    {Header(ID3, 3, 0, s) \o Frame(TIT2, <<65>>) \o Frame(TPE1, <<66>>) :
        s \in {0, 1, 10, 11, 12, 22, 23, 300}}

\* frames, then zeros
PaddedFiles ==
    {Header(ID3, 3, 0, 40) \o Frame(TIT2, <<65>>) \o Zeros(k) : k \in 0..12}

UntaggedFiles ==
    {UntaggedFile, LongUntaggedFile,
     Header(<<105, 100, 51>>, 3, 0, 15) \o Frame(TIT2, Hello),
     Header(<<73, 68, 52>>, 3, 0, 15) \o Frame(TIT2, Hello),
     Header(<<0, 68, 51>>, 3, 0, 15) \o Frame(TIT2, Hello)}

ShortFiles == {SubSeq(HelloFile, 1, k) : k \in 0..9}

ReaderFiles ==
    WriterFiles \cup SingleFrameFiles \cup SkipFiles \cup RepeatFiles \cup {AllSixFile}
        \cup BadSizeFiles \cup CutFiles \cup HeaderFiles \cup SizeFiles
        \cup PaddedFiles \cup UntaggedFiles \cup ShortFiles

---------------------------------------------------------------------------
(* The program: each step is one run of main with one operation *)

Result(op, filename, tag, o) ==
    [op |-> op, path |-> filename, tag |-> tag, status |-> o.status, errs |-> o.errs,
     data |-> o.data, io |-> o.io, parsed |-> o.parsed, stop |-> o.stop, pos |-> o.pos]

NoResult ==
    [op |-> "none", path |-> <<>>, tag |-> "", status |-> "none", errs |-> <<>>,
     data |-> NoData, io |-> <<>>, parsed |-> <<>>, stop |-> "none", pos |-> 0]

InitWith(files) ==
    /\ \E f \in files : fs = [p \in StartNames |-> f]
    /\ last = NoResult
    /\ nops = 0

Init == InitWith(WriterFiles)

InitReader == InitWith(ReaderFiles)

\* main -v: view_tags
Read ==
    /\ nops < MaxOps
    /\ \E filename \in Names, env \in ReadEnvs :
        LET o == read_id3_tags(filename, fs, env[1], env[2])
        IN  /\ last' = Result("read", filename, "", o)
            /\ fs' = o.fsys
            /\ nops' = nops + 1

\* main -w: write_id3_tags on a record the caller built
Write ==
    /\ nops < MaxOps
    /\ \E filename \in Names, data \in Records, fault \in WriteFaults :
        LET o == write_id3_tags(filename, data, fs, fault)
        IN  /\ last' = Result("write", filename, "", o)
            /\ fs' = o.fsys
            /\ nops' = nops + 1

\* main -e: edit_tag
Edit ==
    /\ nops < MaxOps
    /\ \E filename \in Names, tag \in TagNames, value \in EditValues, env \in EditEnvs :
        LET o == edit_tag(filename, tag, value, fs, env[1], env[3], env[2])
        IN  /\ last' = Result("edit", filename, tag, o)
            /\ fs' = o.fsys
            /\ nops' = nops + 1

Next == Read \/ Write \/ Edit

Spec == Init /\ [][Next]_vars

\* the reader alone, over the generated tag files
SpecReader == InitReader /\ [][Read]_vars

---------------------------------------------------------------------------
(* Vocabulary of the properties *)

\* the name ends in ".mp3"
EndsInMp3(name) ==
    Len(name) >= 4
        /\ name[Len(name) - 3] = 46 /\ name[Len(name) - 2] = 109
        /\ name[Len(name) - 1] = 112 /\ name[Len(name)] = 51

Calls(io) == {io[i] : i \in 1..Len(io)}

\* the handles a run opened and did not close
OpenHandles(io) ==
    {h \in {"fp", "fp_orig", "fp_temp"} :
        \E i \in 1..Len(io) :
            /\ io[i] = <<"fopen", h>>
            /\ \A j \in (i + 1)..Len(io) : io[j] # <<"fclose", h>>}

\* the run opened the file it reads
OpenedForReading(r) == <<"fopen", "fp">> \in Calls(r.io)

\* the run called nothing of write_id3_tags
NoWriteCalls(r) ==
    \A c \in Calls(r.io) : c[2] \notin {"fp_orig", "fp_temp"}
                            /\ c[1] \notin {"remove", "rename", "fwrite"}

FrameIdOf ==
    [title |-> TIT2, artist |-> TPE1, album |-> TALB, year |-> TYER,
     comment |-> COMM, genre |-> TCON]

AllSet(data) == \A f \in FieldSet : data[f] # NULL

\* the frames of a record as the format lays them out
RECURSIVE FramesFrom(_, _)
FramesFrom(data, i) ==
    IF i > Len(Fields) THEN <<>>
    ELSE (IF data[Fields[i]] = NULL THEN <<>>
          ELSE Frame(FrameIdOf[Fields[i]], data[Fields[i]][1]))
            \o FramesFrom(data, i + 1)

BytesFrom(bytes, offset) ==
    IF Len(bytes) > offset THEN SubSeq(bytes, offset + 1, Len(bytes)) ELSE <<>>

---------------------------------------------------------------------------
(* C1 *)

\* C1: after a successful write of a record with all six fields set, a read
\* of the same file succeeds and returns the six written values.
C1_RoundTrip ==
    (last.op = "write" /\ last.status = "ok" /\ AllSet(last.data[1])) =>
        LET r == read_id3_tags(last.path, fs, "none", "benign")
        IN  /\ r.status = "ok"
            /\ \A f \in FieldSet : r.data[1][f] = last.data[1][f]

---------------------------------------------------------------------------
(* C2 *)

---------------------------------------------------------------------------
(* C3 *)

\* C3: after a successful write (alone or as the last step of edit) the
\* target holds the original's first 10 bytes, one frame per field that has
\* a value, in the order title, artist, album, year, comment, genre, and the
\* original's bytes from offset 300 on.
C3_WriteLayout ==
    [][(last'.op \in {"write", "edit"} /\ last'.status = "ok") =>
        /\ last'.path \in DOMAIN fs'
        /\ fs'[last'.path] =
              SubSeq(fs[last'.path], 1, 10) \o FramesFrom(last'.data[1], 1)
                  \o BytesFrom(fs[last'.path], 300)]_vars

\* a written record with an absent and a present field, on a file that had
\* bytes past offset 300
C3_Witness ==
    /\ last.op = "write"
    /\ last.status = "ok"
    /\ last.data[1].title = NULL
    /\ last.data[1].genre # NULL
    /\ Len(last.data[1].genre[1]) = MaxValLen
    /\ Len(fs[last.path]) > 10 + Len(FramesFrom(last.data[1], 1))

---------------------------------------------------------------------------
(* C4 *)

\* C4 as claimed: edit with a name that is none of the six fields reports
\* UnknownField, attempts no write and leaves the file system as it was.
C4_UnknownFieldAlways ==
    [][(last'.op = "edit" /\ last'.tag \notin FieldSet) =>
        /\ last'.errs = <<"UnknownField">>
        /\ NoWriteCalls(last')
        /\ fs' = fs]_vars

\* the read of an edit returned a record
ReadReturned(r) == r.stop \notin {"none", "crash"}

\* C4 amended: edit with a name that is none of the six fields attempts no
\* write, creates no temporary file and leaves the file system as it was; it
\* reports UnknownField when its read returned a record, and the read's
\* error followed by ReadFailed when the read failed.
C4_UnknownField ==
    [][(last'.op = "edit" /\ last'.tag \notin FieldSet) =>
        /\ last'.status # "ok"
        /\ NoWriteCalls(last')
        /\ fs' = fs
        /\ TempName \in DOMAIN fs' <=> TempName \in DOMAIN fs
        /\ ReadReturned(last') => last'.errs = <<"UnknownField">>
        /\ (~ReadReturned(last') /\ last'.status = "fail") =>
              /\ Len(last'.errs) = 2
              /\ last'.errs[2] = "ReadFailed"
              /\ last'.errs[1] # "UnknownField"]_vars

\* edit of "publisher" on a file whose tag was read
C4_Witness ==
    /\ last.op = "edit"
    /\ last.tag = "publisher"
    /\ last.path \in DOMAIN fs
    /\ last.errs = <<"UnknownField">>
    /\ Len(last.parsed) > 0

---------------------------------------------------------------------------
(* C5 *)

\* "ID3v2.3" and "ID3v2.3.0"
TextID3v23 == VersionPrefix \o <<51>>
TextID3v230 == VersionPrefix \o <<51, 46, 48>>

\* a read of the file of C5 that returned a record, no allocation having failed
ReadHello ==
    /\ last.op = "read"
    /\ last.status = "ok"
    /\ last.stop # "mallocFailed"
    /\ fs[last.path] = HelloFile

\* the record holds the title "Hello" and no other text field, and the loop
\* ended at the first frame id with a zero leading byte
HelloRecord ==
    /\ last.data[1].title = Str(Hello)
    /\ \A f \in FieldSet \ {"title"} : last.data[1][f] = NULL
    /\ last.stop = "padding"
    /\ Len(last.parsed) = 1
    /\ last.pos = 35

\* C5 as claimed: the read returns title "Hello", the other five fields
\* absent and the version "ID3v2.3", stopping at the zero frame id.
C5_HelloVersion23 ==
    ReadHello => (HelloRecord /\ last.data[1].version = Str(TextID3v23))

\* C5 amended: the read returns title "Hello", the other five fields absent
\* and the version "ID3v2.3.0" (major and minor version), stopping at the
\* zero frame id.
C5_Hello ==
    ReadHello => (HelloRecord /\ last.data[1].version = Str(TextID3v230))

C5_Witness == ReadHello /\ last.stop = "padding" /\ last.path = NameA

---------------------------------------------------------------------------
(* C6 *)

NothingParsed(r) ==
    r.status = "fail" /\ r.data = NoData /\ r.parsed = <<>> /\ r.stop = "none"

\* C6: a read reports the first failing check in the order extension, open,
\* header length, magic; an opened file of fewer than 10 bytes gives
\* TruncatedHeader, one of 10 bytes or more not starting with "ID3" gives
\* NoTagFound, in both cases with no record and no frame parsed; a record is
\* returned only when the four checks pass.
C6_CheckOrder ==
    last.op = "read" =>
        /\ ~EndsInMp3(last.path) =>
              (last.errs = <<"NotAnMp3File">> /\ NothingParsed(last))
        /\ (EndsInMp3(last.path) /\ ~OpenedForReading(last)) =>
              (last.errs = <<"IoError">> /\ NothingParsed(last))
        /\ OpenedForReading(last) =>
              /\ last.path \in DOMAIN fs
              /\ Len(fs[last.path]) < 10 =>
                    (last.errs = <<"TruncatedHeader">> /\ NothingParsed(last))
              /\ (Len(fs[last.path]) >= 10 /\ SubSeq(fs[last.path], 1, 3) # <<73, 68, 51>>) =>
                    (last.errs = <<"NoTagFound">> /\ NothingParsed(last))
        /\ last.status = "ok" =>
              /\ EndsInMp3(last.path)
              /\ OpenedForReading(last)
              /\ Len(fs[last.path]) >= 10
              /\ SubSeq(fs[last.path], 1, 3) = <<73, 68, 51>>
              /\ last.data # NoData

\* a read of a file of 10 bytes or more that starts with "ID4"
C6_Witness ==
    /\ last.op = "read"
    /\ OpenedForReading(last)
    /\ Len(fs[last.path]) >= 10
    /\ SubSeq(fs[last.path], 1, 3) = <<73, 68, 52>>
    /\ last.errs = <<"NoTagFound">>

---------------------------------------------------------------------------
(* C7 *)

\* C7: for a tag of an unknown frame followed by a known one, the read takes
\* the 10 header bytes and the declared content of the unknown frame, sets
\* no field for it, and stores the content of the known frame in its field.
C7_SkipUnknown ==
    (last.op = "read" /\ last.status = "ok" /\ last.stop # "mallocFailed"
        /\ fs[last.path] \in SkipFiles) =>
        LET file == fs[last.path]
            len1 == file[18]
            at2 == 10 + FRAME_HEADER_SIZE + len1
            id2 == SubSeq(file, at2 + 1, at2 + 4)
            len2 == file[at2 + 8]
            content2 == SubSeq(file, at2 + 11, at2 + 10 + len2)
        IN  /\ Len(last.parsed) = 2
            /\ last.parsed[1].at = 10
            /\ last.parsed[2].at = at2
            /\ last.pos = at2 + 10 + len2
            /\ \A f \in FieldSet :
                  last.data[1][f] = IF FrameIdOf[f] = id2 THEN Str(content2) ELSE NULL

---------------------------------------------------------------------------
(* C8 *)

\* the content bytes of a parsed frame
ContentOf(file, fr) == SubSeq(file, fr.at + 11, fr.at + 10 + fr.size)

\* C8: in the record of a successful read a field is absent iff no frame
\* with its id was parsed, and else holds the content bytes of the last
\* parsed frame with its id; a declared tag size of 0 gives six absent
\* fields and a version.
C8_LastFrameWins ==
    (last.op = "read" /\ last.status = "ok") =>
        LET file == fs[last.path]
        IN  /\ \A f \in FieldSet :
                  LET idx == {i \in 1..Len(last.parsed) : last.parsed[i].id = FrameIdOf[f]}
                  IN  IF idx = {} THEN last.data[1][f] = NULL
                      ELSE last.data[1][f] = Str(ContentOf(file, last.parsed[SetMax(idx)]))
            /\ (file[7] = 0 /\ file[8] = 0 /\ file[9] = 0 /\ file[10] = 0) =>
                  /\ \A f \in FieldSet : last.data[1][f] = NULL
                  /\ last.data[1].version # NULL

---------------------------------------------------------------------------
(* C10 *)

\* C10: a read of a file with a 10-byte "ID3" header, whatever follows,
\* returns a record (unless the record itself cannot be allocated): it
\* neither fails nor crashes on the frame data.
C10_FrameDataNeverFatal ==
    (last.op = "read" /\ OpenedForReading(last)
        /\ Len(fs[last.path]) >= 10 /\ SubSeq(fs[last.path], 1, 3) = <<73, 68, 51>>
        /\ last.errs # <<"AllocationFailure">>) =>
        (last.status = "ok" /\ last.data # NoData)

---------------------------------------------------------------------------
(* C9 *)

\* C9: a read, write or edit that returns has closed every file it opened.
C9_HandlesClosed ==
    last.status \in {"ok", "fail"} => OpenHandles(last.io) = {}

\* a write that failed after opening the original and the temporary file
C9_Witness ==
    /\ last.op = "write"
    /\ last.status = "fail"
    /\ last.errs = <<"TruncatedHeader">>
    /\ {<<"fopen", "fp_orig">>, <<"fopen", "fp_temp">>} \subseteq Calls(last.io)

---------------------------------------------------------------------------
(* C11 *)

\* C11: in the replacement step of a write (alone or as the last step of
\* edit), a failed remove or a failed rename makes the write fail with
\* IoError and leaves temp.mp3 in place; for a write it holds the complete new
\* content: the original's first 10 bytes, the frames of the record and the
\* original from offset 300 on. A failed remove leaves the original as it
\* was and no rename is called; a rename is called only after a remove that
\* succeeded; the write succeeds only after both succeeded, and then the
\* target holds that content.
C11_ReplaceStep ==
    [][last'.op \in {"write", "edit"} =>
        LET io == last'.io
            path == last'.path
            RemoveFailed == <<"remove_failed", "">> \in Calls(io)
            RenameFailed == <<"rename_failed", "">> \in Calls(io)
            NewContent(data) ==
                SubSeq(fs[path], 1, 10) \o FramesFrom(data, 1)
                    \o BytesFrom(fs[path], SeekOffset)
        IN  /\ (RemoveFailed \/ RenameFailed) =>
                /\ last'.status = "fail"
                /\ last'.errs = <<"IoError">>
                /\ path \in DOMAIN fs
                /\ TempName \in DOMAIN fs'
                /\ SubSeq(fs'[TempName], 1, 10) = SubSeq(fs[path], 1, 10)
                /\ last'.op = "write" =>
                        \E data \in Records : fs'[TempName] = NewContent(data)
            /\ RemoveFailed =>
                /\ path \in DOMAIN fs' /\ fs'[path] = fs[path]
                /\ \A c \in Calls(io) : c[1] \notin {"remove", "rename", "rename_failed"}
            /\ RenameFailed => path \notin DOMAIN fs'
            /\ \A i \in 1..Len(io) :
                    io[i][1] \in {"rename", "rename_failed"} =>
                        /\ i > 1 /\ io[i - 1] = <<"remove", "">>
                        /\ \A j \in 1..Len(io) : io[j][1] # "remove_failed"
            /\ last'.status = "ok" =>
                /\ {<<"remove", "">>, <<"rename", "">>} \subseteq Calls(io)
                /\ ~RemoveFailed /\ ~RenameFailed
                /\ path \in DOMAIN fs'
                /\ fs'[path] = NewContent(last'.data[1])]_vars

\* a write whose rename failed after the remove: the original is gone and
\* temp.mp3 holds more than the header
C11_Witness ==
    /\ last.op = "write"
    /\ last.status = "fail"
    /\ <<"rename_failed", "">> \in Calls(last.io)
    /\ <<"remove", "">> \in Calls(last.io)
    /\ last.path \notin DOMAIN fs
    /\ TempName \in DOMAIN fs
    /\ Len(fs[TempName]) > 10

====
